---- MODULE Spec2Model ----
(***************************************************************************)
(* Model of the resume parser of mcp/parser.py: the ResumeParser object,   *)
(* its two entry points parse_text and parse_file, the local pipeline      *)
(* (contact extraction, section segmentation, keyword extraction) and the  *)
(* optional remote section correction.                                     *)
(*                                                                         *)
(* Python strings are sequences of one-character strings, so that strip,   *)
(* split, lower, join and substring search are computed, not assumed.      *)
(* Optional values are sequences of length at most one: None is <<>>.      *)
(***************************************************************************)
EXTENDS Integers, Sequences, FiniteSets, TLC

\* Bounds of the model.
MaxLines == 3      \* lines in the input text

None == <<>>
Some(x) == <<x>>

\* the value a local variable holds: the element of a one-element set
the(S) == CHOOSE x \in S : TRUE

Min(S) == CHOOSE x \in S : \A y \in S : x <= y
Max(S) == CHOOSE x \in S : \A y \in S : x >= y

(***************************************************************************)
(* Python str operations.                                                  *)
(***************************************************************************)
NL == "\n"
Whitespace == {" ", "\t", "\n", "\r"}

UpperLetters == <<"A","B","C","D","E","F","G","H","I","J","K","L","M",
                  "N","O","P","Q","R","S","T","U","V","W","X","Y","Z">>
LowerLetters == <<"a","b","c","d","e","f","g","h","i","j","k","l","m",
                  "n","o","p","q","r","s","t","u","v","w","x","y","z">>

lower_char(c) ==
  IF \E i \in 1..26 : UpperLetters[i] = c
    THEN LowerLetters[CHOOSE i \in 1..26 : UpperLetters[i] = c]
    ELSE c

upper_char(c) ==
  IF \E i \in 1..26 : LowerLetters[i] = c
    THEN UpperLetters[CHOOSE i \in 1..26 : LowerLetters[i] = c]
    ELSE c

\* str.lower()
lower(s) == [i \in 1..Len(s) |-> lower_char(s[i])]

\* str.upper()
upper(s) == [i \in 1..Len(s) |-> upper_char(s[i])]

\* str.strip()
strip(s) ==
  LET keep == {i \in 1..Len(s) : s[i] \notin Whitespace}
  IN IF keep = {} THEN <<>> ELSE SubSeq(s, Min(keep), Max(keep))

\* str.split(sep) for a one-character separator
RECURSIVE split(_, _)
split(s, sep) ==
  LET at == {i \in 1..Len(s) : s[i] = sep}
  IN IF at = {} THEN <<s>>
     ELSE <<SubSeq(s, 1, Min(at) - 1)>> \o split(SubSeq(s, Min(at) + 1, Len(s)), sep)

\* sep.join(parts)
RECURSIVE join(_, _)
join(sep, parts) ==
  IF parts = <<>> THEN <<>>
  ELSE IF Len(parts) = 1 THEN parts[1]
  ELSE parts[1] \o sep \o join(sep, Tail(parts))

\* Python's  sub in s
contains(sub, s) ==
  \/ sub = <<>>
  \/ \E i \in 0..(Len(s) - Len(sub)) :
       s[i + 1] = sub[1] /\ SubSeq(s, i + 1, i + Len(sub)) = sub

\* re.search(pattern, s) for the catalog's heading patterns, which are
\* literal strings (letters and spaces only, no regex metacharacter).
re_search(pattern, s) == contains(pattern, s)

(***************************************************************************)
(* models.py                                                               *)
(***************************************************************************)
\* class ResumeSection, in declaration order
ResumeSection ==
  <<"contact", "summary", "experience", "education", "skills", "projects",
    "certifications">>

SectionKinds == {ResumeSection[i] : i \in DOMAIN ResumeSection}

\* class ResumeBlock (confidence defaults to 1.0)
ResumeBlock(content, section, keywords) ==
  [content |-> content, section |-> section, keywords |-> keywords,
   confidence |-> 1]

\* class ContactInfo
ContactInfo(name, email, phone, linkedin) ==
  [name |-> name, email |-> email, phone |-> phone, location |-> None,
   linkedin |-> linkedin]

\* class ParsedResume
ParsedResume(raw_text, contact_info, sections, all_keywords, file_path) ==
  [raw_text |-> raw_text, contact_info |-> contact_info,
   sections |-> sections, all_keywords |-> all_keywords,
   file_path |-> file_path]

\* class ParseResult (resume defaults to None, errors and messages to [])
ParseResult(success, resume, errors, messages) ==
  [success |-> success, resume |-> resume, errors |-> errors,
   messages |-> messages]

(***************************************************************************)
(* ResumeParser.__init__: the pattern catalog.                             *)
(***************************************************************************)
section_patterns ==
  <<
   [section |-> "summary", patterns |-> <<
      <<"s","u","m","m","a","r","y">>,   \* summary
      <<"p","r","o","f","i","l","e">>,   \* profile
      <<"o","b","j","e","c","t","i","v","e">>,   \* objective
      <<"a","b","o","u","t">>,   \* about
      <<"p","r","o","f","e","s","s","i","o","n","a","l"," ","s","u","m","m","a","r","y">>,   \* professional summary
      <<"c","a","r","e","e","r"," ","s","u","m","m","a","r","y">>   \* career summary
    >>],
   [section |-> "experience", patterns |-> <<
      <<"e","x","p","e","r","i","e","n","c","e">>,   \* experience
      <<"w","o","r","k"," ","h","i","s","t","o","r","y">>,   \* work history
      <<"e","m","p","l","o","y","m","e","n","t">>,   \* employment
      <<"p","r","o","f","e","s","s","i","o","n","a","l"," ","e","x","p","e","r","i","e","n","c","e">>,   \* professional experience
      <<"w","o","r","k"," ","e","x","p","e","r","i","e","n","c","e">>   \* work experience
    >>],
   [section |-> "education", patterns |-> <<
      <<"e","d","u","c","a","t","i","o","n">>,   \* education
      <<"a","c","a","d","e","m","i","c">>,   \* academic
      <<"d","e","g","r","e","e">>,   \* degree
      <<"u","n","i","v","e","r","s","i","t","y">>,   \* university
      <<"c","o","l","l","e","g","e">>,   \* college
      <<"s","c","h","o","o","l">>   \* school
    >>],
   [section |-> "skills", patterns |-> <<
      <<"s","k","i","l","l","s">>,   \* skills
      <<"c","o","m","p","e","t","e","n","c","i","e","s">>,   \* competencies
      <<"t","e","c","h","n","o","l","o","g","i","e","s">>,   \* technologies
      <<"t","o","o","l","s">>,   \* tools
      <<"p","r","o","g","r","a","m","m","i","n","g"," ","l","a","n","g","u","a","g","e","s">>   \* programming languages
    >>],
   [section |-> "projects", patterns |-> <<
      <<"p","r","o","j","e","c","t","s">>,   \* projects
      <<"p","o","r","t","f","o","l","i","o">>,   \* portfolio
      <<"a","c","h","i","e","v","e","m","e","n","t","s">>,   \* achievements
      <<"k","e","y"," ","p","r","o","j","e","c","t","s">>,   \* key projects
      <<"n","o","t","a","b","l","e"," ","p","r","o","j","e","c","t","s">>   \* notable projects
    >>],
   [section |-> "certifications", patterns |-> <<
      <<"c","e","r","t","i","f","i","c","a","t","i","o","n","s">>,   \* certifications
      <<"c","e","r","t","i","f","i","c","a","t","e","s">>,   \* certificates
      <<"l","i","c","e","n","s","e","s">>,   \* licenses
      <<"a","c","c","r","e","d","i","t","a","t","i","o","n","s">>,   \* accreditations
      <<"t","r","a","i","n","i","n","g">>   \* training
    >>]
  >>

tech_keywords ==
  <<
   <<"p","y","t","h","o","n">>,   \* python
   <<"j","a","v","a">>,   \* java
   <<"j","a","v","a","s","c","r","i","p","t">>,   \* javascript
   <<"t","y","p","e","s","c","r","i","p","t">>,   \* typescript
   <<"c","+","+">>,   \* c++
   <<"c","#">>,   \* c#
   <<"p","h","p">>,   \* php
   <<"r","u","b","y">>,   \* ruby
   <<"g","o">>,   \* go
   <<"r","u","s","t">>,   \* rust
   <<"s","w","i","f","t">>,   \* swift
   <<"k","o","t","l","i","n">>,   \* kotlin
   <<"s","c","a","l","a">>,   \* scala
   <<"r">>,   \* r
   <<"m","a","t","l","a","b">>,   \* matlab
   <<"r","e","a","c","t">>,   \* react
   <<"v","u","e">>,   \* vue
   <<"a","n","g","u","l","a","r">>,   \* angular
   <<"n","o","d","e",".","j","s">>,   \* node.js
   <<"e","x","p","r","e","s","s">>,   \* express
   <<"d","j","a","n","g","o">>,   \* django
   <<"f","l","a","s","k">>,   \* flask
   <<"s","p","r","i","n","g">>,   \* spring
   <<"l","a","r","a","v","e","l">>,   \* laravel
   <<"a","s","p",".","n","e","t">>,   \* asp.net
   <<"j","q","u","e","r","y">>,   \* jquery
   <<"b","o","o","t","s","t","r","a","p">>,   \* bootstrap
   <<"t","a","i","l","w","i","n","d">>,   \* tailwind
   <<"s","q","l">>,   \* sql
   <<"m","y","s","q","l">>,   \* mysql
   <<"p","o","s","t","g","r","e","s","q","l">>,   \* postgresql
   <<"m","o","n","g","o","d","b">>,   \* mongodb
   <<"r","e","d","i","s">>,   \* redis
   <<"o","r","a","c","l","e">>,   \* oracle
   <<"s","q","l","i","t","e">>,   \* sqlite
   <<"m","a","r","i","a","d","b">>,   \* mariadb
   <<"c","a","s","s","a","n","d","r","a">>,   \* cassandra
   <<"d","y","n","a","m","o","d","b">>,   \* dynamodb
   <<"a","w","s">>,   \* aws
   <<"a","z","u","r","e">>,   \* azure
   <<"g","c","p">>,   \* gcp
   <<"d","o","c","k","e","r">>,   \* docker
   <<"k","u","b","e","r","n","e","t","e","s">>,   \* kubernetes
   <<"j","e","n","k","i","n","s">>,   \* jenkins
   <<"g","i","t">>,   \* git
   <<"g","i","t","h","u","b">>,   \* github
   <<"g","i","t","l","a","b">>,   \* gitlab
   <<"c","i","/","c","d">>,   \* ci/cd
   <<"t","e","r","r","a","f","o","r","m">>,   \* terraform
   <<"a","n","s","i","b","l","e">>,   \* ansible
   <<"j","i","r","a">>,   \* jira
   <<"c","o","n","f","l","u","e","n","c","e">>,   \* confluence
   <<"s","l","a","c","k">>,   \* slack
   <<"f","i","g","m","a">>,   \* figma
   <<"a","d","o","b","e">>,   \* adobe
   <<"p","h","o","t","o","s","h","o","p">>,   \* photoshop
   <<"e","x","c","e","l">>,   \* excel
   <<"p","o","w","e","r","p","o","i","n","t">>,   \* powerpoint
   <<"w","o","r","d">>,   \* word
   <<"t","a","b","l","e","a","u">>,   \* tableau
   <<"p","o","w","e","r"," ","b","i">>   \* power bi
  >>

common_keywords ==
  <<
   <<"l","e","a","d","e","r","s","h","i","p">>,   \* leadership
   <<"m","a","n","a","g","e","m","e","n","t">>,   \* management
   <<"p","r","o","j","e","c","t">>,   \* project
   <<"t","e","a","m">>,   \* team
   <<"d","e","v","e","l","o","p","m","e","n","t">>,   \* development
   <<"a","n","a","l","y","s","i","s">>,   \* analysis
   <<"d","e","s","i","g","n">>,   \* design
   <<"i","m","p","l","e","m","e","n","t","a","t","i","o","n">>,   \* implementation
   <<"t","e","s","t","i","n","g">>,   \* testing
   <<"d","e","p","l","o","y","m","e","n","t">>,   \* deployment
   <<"a","g","i","l","e">>,   \* agile
   <<"s","c","r","u","m">>,   \* scrum
   <<"k","a","n","b","a","n">>,   \* kanban
   <<"w","a","t","e","r","f","a","l","l">>,   \* waterfall
   <<"m","e","t","h","o","d","o","l","o","g","y">>,   \* methodology
   <<"r","e","s","e","a","r","c","h">>,   \* research
   <<"d","a","t","a">>,   \* data
   <<"a","n","a","l","y","t","i","c","s">>,   \* analytics
   <<"m","a","c","h","i","n","e"," ","l","e","a","r","n","i","n","g">>,   \* machine learning
   <<"a","i">>,   \* ai
   <<"f","r","o","n","t","e","n","d">>,   \* frontend
   <<"b","a","c","k","e","n","d">>,   \* backend
   <<"f","u","l","l","s","t","a","c","k">>,   \* fullstack
   <<"a","p","i">>,   \* api
   <<"r","e","s","t">>,   \* rest
   <<"g","r","a","p","h","q","l">>,   \* graphql
   <<"m","i","c","r","o","s","e","r","v","i","c","e","s">>,   \* microservices
   <<"a","r","c","h","i","t","e","c","t","u","r","e">>,   \* architecture
   <<"d","a","t","a","b","a","s","e">>,   \* database
   <<"o","p","t","i","m","i","z","a","t","i","o","n">>   \* optimization
  >>
(***************************************************************************)
(* Keyword extraction.                                                     *)
(***************************************************************************)
\* for keyword in vocabulary: if keyword in text_lower: append(keyword)
find_keywords(vocabulary, text_lower) ==
  SelectSeq(vocabulary, LAMBDA keyword : contains(keyword, text_lower))

\* variant: the text is not lower-cased
_extract_keywords_cased(text) ==
  LET found_keywords == find_keywords(tech_keywords, text)
                          \o find_keywords(common_keywords, text)
  IN {found_keywords[i] : i \in DOMAIN found_keywords}

\* list(set(found_keywords)): the order of the result is unspecified, so the
\* returned list is modelled as the set of its elements.
_extract_keywords(text) ==
  LET text_lower == lower(text)
      found_keywords == find_keywords(tech_keywords, text_lower)
                          \o find_keywords(common_keywords, text_lower)
  IN {found_keywords[i] : i \in DOMAIN found_keywords}

\* variant: the lines of a block are joined without a line break
_create_block_unbroken(content, section) ==
  LET text == join(<<>>, content)
  IN ResumeBlock(text, section, _extract_keywords(text))

\* _create_block
_create_block(content, section) ==
  LET text == join(<<NL>>, content)
  IN ResumeBlock(text, section, _extract_keywords(text))

(***************************************************************************)
(* Section segmentation.                                                   *)
(***************************************************************************)
NoSection == "no section"

\* any(re.search(pattern, paragraph.lower()) for pattern in patterns), given
\* paragraph.lower()
any_pattern(patterns, paragraph_lower) ==
  \E j \in DOMAIN patterns : re_search(patterns[j], paragraph_lower)

\* variant: no break, the last matching entry of the catalog wins
RECURSIVE section_loop_no_break(_, _)
section_loop_no_break(paragraph_lower, i) ==
  IF i > Len(section_patterns) THEN NoSection
  ELSE LET later == section_loop_no_break(paragraph_lower, i + 1)
       IN IF later # NoSection THEN later
          ELSE IF any_pattern(section_patterns[i].patterns, paragraph_lower)
            THEN section_patterns[i].section
            ELSE NoSection

\* for section, patterns in self.section_patterns.items(): ... break
\* from the i-th entry of the catalog on
RECURSIVE section_loop(_, _)
section_loop(paragraph_lower, i) ==
  IF i > Len(section_patterns) THEN NoSection
  ELSE IF any_pattern(section_patterns[i].patterns, paragraph_lower)
    THEN section_patterns[i].section
    ELSE section_loop(paragraph_lower, i + 1)

\* the section whose heading patterns the paragraph matches, or NoSection
matched_section(paragraph) == section_loop(lower(paragraph), 1)

\* [p.strip() for p in text.split('\n') if p.strip()]
paragraphs_of(text) ==
  LET parts == split(text, NL)
      stripped == [i \in 1..Len(parts) |-> strip(parts[i])]
  IN SelectSeq(stripped, LAMBDA p : p # <<>>)

\* The loop state of _parse_sections.  emitted is not a variable of the code:
\* it records the blocks in the order the code appends them.
\* variant: the map is keyed by the catalog's sections only
SegInit_CatalogKeys ==
  [sections |-> [s \in {section_patterns[i].section : i \in DOMAIN section_patterns}
                   |-> <<>>],
   current_section |-> "summary",
   current_content |-> <<>>,
   emitted |-> <<>>]

\* variant: the current section starts as contact
SegInit_StartsInContact ==
  [sections |-> [s \in SectionKinds |-> <<>>],
   current_section |-> "contact",
   current_content |-> <<>>,
   emitted |-> <<>>]

SegInit ==
  [sections |-> [s \in SectionKinds |-> <<>>],
   current_section |-> "summary",
   current_content |-> <<>>,
   emitted |-> <<>>]

\* variant: every block is created for the section the loop starts in
flush_summary_block(st) ==
  IF st.current_content # <<>>
    THEN LET block == _create_block(st.current_content, "summary")
         IN [sections |-> [s \in DOMAIN st.sections |->
                             IF s = st.current_section
                               THEN Append(st.sections[s], block)
                               ELSE st.sections[s]],
             current_section |-> st.current_section,
             current_content |-> st.current_content,
             emitted |-> Append(st.emitted, block)]
    ELSE st

\* if current_content: block = _create_block(...); sections[...].append(block)
flush(st) ==
  IF st.current_content # <<>>
    THEN LET block == _create_block(st.current_content, st.current_section)
         IN [sections |-> [s \in DOMAIN st.sections |->
                             IF s = st.current_section
                               THEN Append(st.sections[s], block)
                               ELSE st.sections[s]],
             current_section |-> st.current_section,
             current_content |-> st.current_content,
             emitted |-> Append(st.emitted, block)]
    ELSE st

\* variant: the heading line is not kept in the new buffer
seg_step_heading_dropped(st, paragraph) ==
  LET section == matched_section(paragraph)
      flushed == flush(st)
  IN IF section # NoSection
       THEN [sections |-> flushed.sections,
             current_section |-> section,
             current_content |-> <<>>,
             emitted |-> flushed.emitted]
       ELSE [sections |-> st.sections,
             current_section |-> st.current_section,
             current_content |-> Append(st.current_content, paragraph),
             emitted |-> st.emitted]

\* variant: a heading of the current section does not start a new block
seg_step_same_section_appends(st, paragraph) ==
  LET section == matched_section(paragraph)
      flushed == flush(st)
  IN IF section # NoSection /\ section # st.current_section
       THEN [sections |-> flushed.sections,
             current_section |-> section,
             current_content |-> <<paragraph>>,
             emitted |-> flushed.emitted]
       ELSE [sections |-> st.sections,
             current_section |-> st.current_section,
             current_content |-> Append(st.current_content, paragraph),
             emitted |-> st.emitted]

\* one iteration of  for paragraph in paragraphs
seg_step(st, paragraph) ==
  LET section == matched_section(paragraph)
      flushed == flush(st)
  IN IF section # NoSection
       THEN [sections |-> flushed.sections,
             current_section |-> section,
             current_content |-> <<paragraph>>,
             emitted |-> flushed.emitted]
       ELSE [sections |-> st.sections,
             current_section |-> st.current_section,
             current_content |-> Append(st.current_content, paragraph),
             emitted |-> st.emitted]

RECURSIVE seg_loop(_, _)
seg_loop(st, paragraphs) ==
  IF paragraphs = <<>> THEN st
  ELSE seg_loop(seg_step(st, Head(paragraphs)), Tail(paragraphs))

segment(text) == flush(seg_loop(SegInit, paragraphs_of(text)))

_parse_sections(text) == segment(text).sections

(***************************************************************************)
(* Contact extraction.                                                     *)
(***************************************************************************)
Digits == {"0","1","2","3","4","5","6","7","8","9"}
Letters == {UpperLetters[i] : i \in 1..26} \cup {LowerLetters[i] : i \in 1..26}
Alnum == Letters \cup Digits
WordChars == Alnum \cup {"_"}                        \* regex \w
RegexSpace == {" ", "\t", "\n", "\r", "\f"}          \* regex \s

\* regex \b between s[i] and s[i+1]
word_boundary(s, i) ==
  LET before == i >= 1 /\ i <= Len(s) /\ s[i] \in WordChars
      after == i + 1 >= 1 /\ i + 1 <= Len(s) /\ s[i + 1] \in WordChars
  IN before # after

\* last index of the longest run of characters of class starting at from
\* (from - 1 when the run is empty)
run_end(s, from, class) ==
  LET stop == {i \in from..Len(s) : s[i] \notin class}
  IN IF stop = {} THEN Len(s) ELSE Min(stop) - 1

\* self.email_pattern = \b[A-Za-z0-9._%+-]+@[A-Za-z0-9.-]+\.[A-Z|a-z]{2,}\b
EmailLocal == Alnum \cup {".", "_", "%", "+", "-"}
EmailDomain == Alnum \cup {".", "-"}
EmailTld == Letters \cup {"|"}

\* the ends <<d, e>> of the domain and of the whole match, for a match that
\* starts at a; the local part runs up to the "@"
email_ends(s, a) ==
  LET b == run_end(s, a, EmailLocal)
      r == run_end(s, b + 2, EmailDomain)
  IN IF ~(word_boundary(s, a - 1) /\ b >= a /\ b + 1 <= Len(s) /\ s[b + 1] = "@")
       THEN {}
       ELSE {de \in ((b + 2)..r) \X ((b + 2)..Len(s)) :
               /\ de[1] + 1 <= Len(s) /\ s[de[1] + 1] = "."
               /\ de[2] >= de[1] + 3
               /\ de[2] <= run_end(s, de[1] + 2, EmailTld)
               /\ word_boundary(s, de[2])}

\* re.findall(self.email_pattern, text)[0], or None: the leftmost match, each
\* greedy quantifier taking the longest stretch that lets the rest match
first_email(s) ==
  LET starts == {a \in 1..Len(s) : email_ends(s, a) # {}}
  IN IF starts = {} THEN None
     ELSE LET a == Min(starts)
              d == Max({de[1] : de \in email_ends(s, a)})
              e == Max({de[2] : de \in {x \in email_ends(s, a) : x[1] = d}})
          IN Some(SubSeq(s, a, e))

\* self.phone_pattern =
\*   (\+?1?[-.\s]?)?\(?([0-9]{3})\)?[-.\s]?([0-9]{3})[-.\s]?([0-9]{4})
\* as a sequence of one-character items; captured items belong to a group
PhoneSep == {"-", "."} \cup RegexSpace
Item(chars, optional, captured) ==
  [chars |-> chars, optional |-> optional, captured |-> captured]
Digit == Item(Digits, FALSE, TRUE)
phone_pattern ==
  <<Item({"+"}, TRUE, TRUE), Item({"1"}, TRUE, TRUE), Item(PhoneSep, TRUE, TRUE),
    Item({"("}, TRUE, FALSE), Digit, Digit, Digit, Item({")"}, TRUE, FALSE),
    Item(PhoneSep, TRUE, FALSE), Digit, Digit, Digit,
    Item(PhoneSep, TRUE, FALSE), Digit, Digit, Digit, Digit>>

\* backtracking match of items at position pos: None, or Some(the captured
\* characters); an optional item is tried present first (greedy)
RECURSIVE match_items(_, _, _)
match_items(items, s, pos) ==
  IF items = <<>> THEN Some(<<>>)
  ELSE LET it == Head(items)
           taken == IF pos <= Len(s) /\ s[pos] \in it.chars
                      THEN match_items(Tail(items), s, pos + 1)
                      ELSE None
       IN IF taken # None
            THEN Some((IF it.captured THEN <<s[pos]>> ELSE <<>>) \o taken[1])
          ELSE IF it.optional THEN match_items(Tail(items), s, pos)
          ELSE None

\* ''.join(re.findall(self.phone_pattern, text)[0]), or None
first_phone(s) ==
  LET starts == {a \in 1..Len(s) : match_items(phone_pattern, s, a) # None}
  IN IF starts = {} THEN None
     ELSE match_items(phone_pattern, s, Min(starts))

\* self.linkedin_pattern = linkedin\.com/in/[a-zA-Z0-9-]+
LinkedinPrefix == <<"l","i","n","k","e","d","i","n",".","c","o","m","/","i","n","/">>
LinkedinId == Alnum \cup {"-"}
Https == <<"h","t","t","p","s",":","/","/">>

\* f"https://{re.findall(self.linkedin_pattern, text)[0]}", or None
first_linkedin(s) ==
  LET n == Len(LinkedinPrefix)
      starts == {a \in 1..(Len(s) - n) :
                   /\ SubSeq(s, a, a + n - 1) = LinkedinPrefix
                   /\ s[a + n] \in LinkedinId}
  IN IF starts = {} THEN None
     ELSE LET a == Min(starts)
          IN Some(Https \o SubSeq(s, a, run_end(s, a + n, LinkedinId)))

\* the stoplist of the name heuristic
NameStopwords ==
  <<<<"r","e","s","u","m","e">>, <<"c","v">>, <<"e","m","a","i","l">>,
    <<"p","h","o","n","e">>, <<"l","i","n","k","e","d","i","n">>>>
NameWindow == 10
NameMinLen == 2
NameMaxLen == 50

\* the condition of the name loop, on a stripped line
name_ok(line) ==
  /\ line # <<>>
  /\ Len(line) > NameMinLen
  /\ Len(line) < NameMaxLen
  /\ ~\E k \in DOMAIN NameStopwords : contains(NameStopwords[k], lower(line))

\* for line in lines[:10]: ... contact_info.name = line; break
RECURSIVE name_loop(_)
name_loop(lines) ==
  IF lines = <<>> THEN None
  ELSE IF name_ok(strip(Head(lines))) THEN Some(strip(Head(lines)))
  ELSE name_loop(Tail(lines))

\* Python's  s[:n]
take(s, n) == SubSeq(s, 1, IF Len(s) < n THEN Len(s) ELSE n)

\* variant: blank lines are dropped before the first ten are taken
_extract_contact_info_nonblank(text) ==
  ContactInfo(name_loop(take(SelectSeq(split(text, NL),
                                       LAMBDA line : strip(line) # <<>>),
                             NameWindow)),
              first_email(text), first_phone(text), first_linkedin(text))

_extract_contact_info(text) ==
  ContactInfo(name_loop(take(split(text, NL), NameWindow)),
              first_email(text), first_phone(text), first_linkedin(text))

(***************************************************************************)
(* The remote correction service and its response.                         *)
(*                                                                         *)
(* The response text is a sequence of lexical tokens [t, v]: the JSON      *)
(* punctuation "{" "}" "[" "]" ":" ",", white space "ws", a string literal *)
(* "str" with its value v, a number "num", and "word" for any other text.  *)
(***************************************************************************)
Tok(t) == [t |-> t, v |-> <<>>]
Str(v) == [t |-> "str", v |-> v]

\* str.strip() on the response text
strip_tokens(text) ==
  LET keep == {i \in 1..Len(text) : text[i].t # "ws"}
  IN IF keep = {} THEN <<>> ELSE SubSeq(text, Min(keep), Max(keep))

\* re.search(r'\{.*\}', text, re.DOTALL).group(0), or None: .* is greedy and
\* DOTALL lets it cross lines, so the match runs from the first "{" to the
\* last "}" after it
search_json_object(text) ==
  LET opens == {i \in 1..Len(text) : text[i].t = "{"}
      closes == {j \in 1..Len(text) : text[j].t = "}"}
  IN IF opens = {} \/ {j \in closes : j > Min(opens)} = {} THEN None
     ELSE Some(SubSeq(text, Min(opens), Max(closes)))

\* JSON values, tagged with their Python type
JStr(v) == [k |-> "str", v |-> v]
JNum == [k |-> "num", v |-> <<>>]
JList(items) == [k |-> "list", v |-> items]
JDict(pairs) == [k |-> "dict", v |-> pairs]     \* pairs <<key, value>> in order

JsonFail == [ok |-> FALSE, val |-> JNum, next |-> 0]
JsonOk(val, next) == [ok |-> TRUE, val |-> val, next |-> next]

skip_ws(toks, pos) ==
  LET rest == {i \in pos..Len(toks) : toks[i].t # "ws"}
  IN IF rest = {} THEN Len(toks) + 1 ELSE Min(rest)

tok_at(toks, pos) == IF pos >= 1 /\ pos <= Len(toks) THEN toks[pos].t ELSE "end"

\* json.loads: a recursive-descent parse of one value starting at pos
RECURSIVE json_value(_, _), json_members(_, _, _), json_elements(_, _, _)
json_value(toks, pos) ==
  LET p == skip_ws(toks, pos)
      t == tok_at(toks, p)
  IN CASE t = "str" -> JsonOk(JStr(toks[p].v), p + 1)
       [] t = "num" -> JsonOk(JNum, p + 1)
       [] t = "{" -> IF tok_at(toks, skip_ws(toks, p + 1)) = "}"
                       THEN JsonOk(JDict(<<>>), skip_ws(toks, p + 1) + 1)
                       ELSE json_members(toks, p + 1, <<>>)
       [] t = "[" -> IF tok_at(toks, skip_ws(toks, p + 1)) = "]"
                       THEN JsonOk(JList(<<>>), skip_ws(toks, p + 1) + 1)
                       ELSE json_elements(toks, p + 1, <<>>)
       [] OTHER -> JsonFail

json_members(toks, pos, pairs) ==
  LET p == skip_ws(toks, pos)
      c == skip_ws(toks, p + 1)
      val == json_value(toks, c + 1)
      n == skip_ws(toks, val.next)
      pairs2 == Append(pairs, <<toks[p].v, val.val>>)
  IN IF tok_at(toks, p) # "str" \/ tok_at(toks, c) # ":" THEN JsonFail
     ELSE IF ~val.ok THEN JsonFail
     ELSE IF tok_at(toks, n) = "}" THEN JsonOk(JDict(pairs2), n + 1)
     ELSE IF tok_at(toks, n) = "," THEN json_members(toks, n + 1, pairs2)
     ELSE JsonFail

json_elements(toks, pos, items) ==
  LET val == json_value(toks, pos)
      n == skip_ws(toks, val.next)
      items2 == Append(items, val.val)
  IN IF ~val.ok THEN JsonFail
     ELSE IF tok_at(toks, n) = "]" THEN JsonOk(JList(items2), n + 1)
     ELSE IF tok_at(toks, n) = "," THEN json_elements(toks, n + 1, items2)
     ELSE JsonFail

\* json.loads(json_str): None stands for JSONDecodeError
json_loads(toks) ==
  LET r == json_value(toks, 1)
  IN IF r.ok /\ skip_ws(toks, r.next) > Len(toks) THEN Some(r.val) ELSE None

\* key in d  and  d[key]  for a dict (the last pair of a repeated key wins)
dict_has(d, key) == \E i \in DOMAIN d.v : d.v[i][1] = key
dict_get(d, key) == d.v[Max({i \in DOMAIN d.v : d.v[i][1] = key})][2]

\* Results of code that may raise
Raise(exc) == [raised |-> TRUE, exc |-> exc, value |-> <<>>]
Value(v) == [raised |-> FALSE, exc |-> <<>>, value |-> v]

\* ResumeSection.value
section_value(section) ==
  CASE section = "contact" -> <<"c","o","n","t","a","c","t">>
    [] section = "summary" -> <<"s","u","m","m","a","r","y">>
    [] section = "experience" -> <<"e","x","p","e","r","i","e","n","c","e">>
    [] section = "education" -> <<"e","d","u","c","a","t","i","o","n">>
    [] section = "skills" -> <<"s","k","i","l","l","s">>
    [] section = "projects" -> <<"p","r","o","j","e","c","t","s">>
    [] section = "certifications" -> <<"c","e","r","t","i","f","i","c","a","t","i","o","n","s">>

KeySections == <<"s","e","c","t","i","o","n","s">>
KeyContent == <<"c","o","n","t","e","n","t">>
KeyKeywords == <<"k","e","y","w","o","r","d","s">>

\* ResumeBlock(content=block.get("content", ""), section=section,
\*             keywords=block.get("keywords", []))
\* block.get needs a dict; the model validation needs a str and a list of str
llm_block(block, section) ==
  IF block.k # "dict" THEN Raise(<<"AttributeError">>)
  ELSE LET content == IF dict_has(block, KeyContent)
                        THEN dict_get(block, KeyContent) ELSE JStr(<<>>)
           keywords == IF dict_has(block, KeyKeywords)
                         THEN dict_get(block, KeyKeywords) ELSE JList(<<>>)
       IN IF content.k # "str" \/ keywords.k # "list"
            THEN Raise(<<"ValidationError">>)
          ELSE IF \E i \in DOMAIN keywords.v : keywords.v[i].k # "str"
            THEN Raise(<<"ValidationError">>)
          ELSE Value(ResumeBlock(content.v, section,
                       [i \in DOMAIN keywords.v |-> keywords.v[i].v]))

\* for block in llm_data["sections"][section_key]: blocks.append(...)
llm_blocks(listed, section) ==
  IF listed.k = "num" THEN Raise(<<"TypeError">>)                 \* not iterable
  ELSE IF listed.k = "str"                      \* iterates over characters
    THEN IF listed.v = <<>> THEN Value(<<>>) ELSE Raise(<<"AttributeError">>)
  ELSE IF listed.k = "dict"                     \* iterates over the keys
    THEN IF listed.v = <<>> THEN Value(<<>>) ELSE Raise(<<"AttributeError">>)
  ELSE LET made == [i \in DOMAIN listed.v |-> llm_block(listed.v[i], section)]
           bad == {i \in DOMAIN made : made[i].raised}
       IN IF bad # {} THEN Raise(made[Min(bad)].exc)
          ELSE Value([i \in DOMAIN made |-> made[i].value])

\* the body of  for section in ResumeSection  in _parsed_resume_from_llm
llm_section(llm_data, section) ==
  IF ~dict_has(llm_data, KeySections) THEN Value(<<>>)
  ELSE LET sections == dict_get(llm_data, KeySections)
           section_key == section_value(section)
       IN CASE sections.k = "dict" ->
                 IF dict_has(sections, section_key)
                   THEN llm_blocks(dict_get(sections, section_key), section)
                   ELSE Value(<<>>)
            [] sections.k = "list" ->        \* membership, then list[str]
                 IF \E i \in DOMAIN sections.v :
                      sections.v[i].k = "str" /\ sections.v[i].v = section_key
                   THEN Raise(<<"TypeError">>) ELSE Value(<<>>)
            [] sections.k = "str" ->         \* substring test, then str[str]
                 IF contains(section_key, sections.v)
                   THEN Raise(<<"TypeError">>) ELSE Value(<<>>)
            [] OTHER -> Raise(<<"TypeError">>)   \* in  on a number

\* variant: a section the response leaves empty keeps the original's blocks
_parsed_resume_from_llm_merge(llm_data, original) ==
  LET made == [i \in DOMAIN ResumeSection |->
                 llm_section(llm_data, ResumeSection[i])]
      bad == {i \in DOMAIN made : made[i].raised}
      listed == [s \in SectionKinds |->
                   made[CHOOSE i \in DOMAIN ResumeSection :
                          ResumeSection[i] = s].value]
      new_sections == [s \in SectionKinds |->
                         IF listed[s] = <<>> THEN original.sections[s]
                         ELSE listed[s]]
      all_keywords == UNION {UNION {{listed[s][b].keywords[n] :
                                       n \in DOMAIN listed[s][b].keywords} :
                                    b \in DOMAIN listed[s]} :
                             s \in SectionKinds}
  IN IF bad # {} THEN Raise(made[Min(bad)].exc)
     ELSE Value(ParsedResume(original.raw_text, original.contact_info,
                             new_sections, all_keywords, original.file_path))

\* variant: the rebuilt document starts from an empty contact record
_parsed_resume_from_llm_no_contact(llm_data, original) ==
  LET made == [i \in DOMAIN ResumeSection |->
                 llm_section(llm_data, ResumeSection[i])]
      bad == {i \in DOMAIN made : made[i].raised}
      new_sections == [s \in SectionKinds |->
                         made[CHOOSE i \in DOMAIN ResumeSection :
                                ResumeSection[i] = s].value]
      all_keywords == UNION {UNION {{new_sections[s][b].keywords[n] :
                                       n \in DOMAIN new_sections[s][b].keywords} :
                                    b \in DOMAIN new_sections[s]} :
                             s \in SectionKinds}
  IN IF bad # {} THEN Raise(made[Min(bad)].exc)
     ELSE Value(ParsedResume(original.raw_text,
                             ContactInfo(None, None, None, None),
                             new_sections, all_keywords, original.file_path))

\* variant: the document-wide keywords are carried over from the original
_parsed_resume_from_llm_old_keywords(llm_data, original) ==
  LET made == [i \in DOMAIN ResumeSection |->
                 llm_section(llm_data, ResumeSection[i])]
      bad == {i \in DOMAIN made : made[i].raised}
      new_sections == [s \in SectionKinds |->
                         made[CHOOSE i \in DOMAIN ResumeSection :
                                ResumeSection[i] = s].value]
  IN IF bad # {} THEN Raise(made[Min(bad)].exc)
     ELSE Value(ParsedResume(original.raw_text, original.contact_info,
                             new_sections, original.all_keywords,
                             original.file_path))

_parsed_resume_from_llm(llm_data, original) ==
  LET made == [i \in DOMAIN ResumeSection |->
                 llm_section(llm_data, ResumeSection[i])]
      bad == {i \in DOMAIN made : made[i].raised}
      new_sections == [s \in SectionKinds |->
                         made[CHOOSE i \in DOMAIN ResumeSection :
                                ResumeSection[i] = s].value]
      all_keywords == UNION {UNION {{new_sections[s][b].keywords[n] :
                                       n \in DOMAIN new_sections[s][b].keywords} :
                                    b \in DOMAIN new_sections[s]} :
                             s \in SectionKinds}
  IN IF bad # {} THEN Raise(made[Min(bad)].exc)
     ELSE Value(ParsedResume(original.raw_text, original.contact_info,
                             new_sections, all_keywords, original.file_path))

\* A response of the remote service: generate_content or response.text
\* raises, or text is delivered
Raises == [raises |-> TRUE, text |-> <<>>]
Text(text) == [raises |-> FALSE, text |-> text]

ErrorTextLimit == 200

\* variant: text that does not parse as JSON is taken for an empty object
llm_attempt_lenient(parsed_resume, response) ==
  IF response.raises THEN Raise(<<"remote call failed">>)
  ELSE LET text == strip_tokens(response.text)
           match == search_json_object(text)
           llm_data == json_loads(match[1])
       IN IF text = <<>>
            THEN Raise(<<"Empty response from Gemini LLM.">>)
          ELSE IF match = None
            THEN Raise(<<"No JSON object found in LLM response: ",
                         take(text, ErrorTextLimit)>>)
          ELSE IF llm_data = None
            THEN _parsed_resume_from_llm(JDict(<<>>), parsed_resume)
          ELSE _parsed_resume_from_llm(llm_data[1], parsed_resume)

\* the body of the try block of _llm_section_correction
llm_attempt(parsed_resume, response) ==
  IF response.raises THEN Raise(<<"remote call failed">>)
  ELSE LET text == strip_tokens(response.text)
           match == search_json_object(text)
           llm_data == json_loads(match[1])
       IN IF text = <<>>
            THEN Raise(<<"Empty response from Gemini LLM.">>)
          ELSE IF match = None
            THEN Raise(<<"No JSON object found in LLM response: ",
                         take(text, ErrorTextLimit)>>)
          ELSE IF llm_data = None THEN Raise(<<"JSONDecodeError">>)
          ELSE _parsed_resume_from_llm(llm_data[1], parsed_resume)

(***************************************************************************)
(* The parser object, its environment and the last invocation.             *)
(***************************************************************************)
VARIABLES
  use_llm_correction,   \* self.use_llm_correction, set by __init__
  lines,                \* the caller's material: the lines of the resume
  pc,                   \* "idle" before the invocation, "done" after it
  call,                 \* the invocation: entry point and arguments
  returned,             \* Some(ParseResult) returned by the invocation
  raised,               \* Some(exception) that left the entry point
  events,               \* calls made during the invocation, in order
  previous              \* the earlier invocations on this parser, in order

vars ==
  <<use_llm_correction, lines, pc, call, returned, raised, events, previous>>

\* The outcome of running a piece of the orchestrator
Returns(result, evs) ==
  [raised |-> FALSE, exc |-> <<>>, result |-> Some(result), events |-> evs]
Throws(exc, evs) ==
  [raised |-> TRUE, exc |-> exc, result |-> None, events |-> evs]

EvPipeline == "_parse_text"
EvRemote == "generate_content"
EvExtract == "extract_text"

\* _llm_section_correction: the ParseResult and the remote calls made
_llm_section_correction(parsed_resume, response) ==
  IF ~use_llm_correction
    THEN [result |-> ParseResult(TRUE, Some(parsed_resume), <<>>,
                                 <<<<"LLM correction disabled">>>>),
          events |-> <<>>]
    ELSE the({[result |->
                 IF attempt.raised
                   THEN ParseResult(FALSE, Some(parsed_resume),
                          <<<<"LLM correction error: ", attempt.exc>>>>, <<>>)
                   ELSE ParseResult(TRUE, Some(attempt.value), <<>>,
                          <<<<"Sections verified/corrected by Gemini Pro">>>>),
               events |-> <<EvRemote>>] :
              attempt \in {llm_attempt(parsed_resume, response)}})

\* variant: the section lists are kept on the parser and grow from call to
\* call
local_parse_accumulating(text, file_path) ==
  LET fresh == _parse_sections(text)
      kept == IF previous # <<>> /\ previous[Len(previous)].returned # None
                   /\ previous[Len(previous)].returned[1].resume # None
                THEN previous[Len(previous)].returned[1].resume[1].sections
                ELSE [s \in SectionKinds |-> <<>>]
  IN ParsedResume(text, _extract_contact_info(text),
                  [s \in SectionKinds |-> kept[s] \o fresh[s]],
                  _extract_keywords(text), file_path)

\* the ParsedResume built by the local pipeline in _parse_text
local_parse(text, file_path) ==
  ParsedResume(text, _extract_contact_info(text), _parse_sections(text),
               _extract_keywords(text), file_path)

\* variant: the failed result of the corrector is returned as it is
fallback_llm_result(parsed_resume, llm_result) == llm_result

\* variant: the corrector's errors are also kept in the error list
fallback_with_errors(parsed_resume, llm_result) ==
  ParseResult(TRUE, Some(parsed_resume), llm_result.errors,
    <<<<"LLM correction failed, using initial parse.">>>> \o llm_result.errors)

\* ParseResult(success=True, resume=parsed_resume,
\*   messages=["LLM correction failed, using initial parse."] + llm_result.errors)
fallback(parsed_resume, llm_result) ==
  ParseResult(TRUE, Some(parsed_resume), <<>>,
    <<<<"LLM correction failed, using initial parse.">>>> \o llm_result.errors)

\* variant: a failed attempt is tried once more before the fallback
finish_parse_text_retry(parsed_resume, response) ==
  IF use_llm_correction
    THEN the({Returns(IF llm.result.success THEN llm.result
                      ELSE fallback(parsed_resume, llm.result),
                      <<EvPipeline>> \o llm.events \o
                        (IF llm.result.success THEN <<>> ELSE llm.events)) :
                llm \in {_llm_section_correction(parsed_resume, response)}})
    ELSE Returns(ParseResult(TRUE, Some(parsed_resume), <<>>,
                             <<<<"Resume parsed successfully">>>>),
                 <<EvPipeline>>)

\* what _parse_text does once parsed_resume is built: the corrector, and the
\* fallback when it fails
finish_parse_text(parsed_resume, response) ==
  IF use_llm_correction
    THEN the({Returns(IF llm.result.success THEN llm.result
                      ELSE fallback(parsed_resume, llm.result),
                      <<EvPipeline>> \o llm.events) :
                llm \in {_llm_section_correction(parsed_resume, response)}})
    ELSE Returns(ParseResult(TRUE, Some(parsed_resume), <<>>,
                             <<<<"Resume parsed successfully">>>>),
                 <<EvPipeline>>)

\* _parse_text; none of the steps of its try block raises on a str, so its
\* except clause yields no outcome of its own.  parsed_resume is built once
\* and then used.
_parse_text(text, file_path, response) ==
  the({finish_parse_text(parsed_resume, response) :
         parsed_resume \in {local_parse(text, file_path)}})

\* variant: no except clause
catch_nothing(run, prefix) == run

\* except Exception as e: return ParseResult(success=False, errors=[prefix + str(e)])
catch(run, prefix) ==
  IF run.raised
    THEN Returns(ParseResult(FALSE, None, <<<<prefix, run.exc>>>>, <<>>),
                 run.events)
    ELSE run

\* variant: the text is not stripped before the test
is_blank_unstripped(text) == text = <<>>

\* if not text.strip()
is_blank(text) == strip(text) = <<>>

\* the try block of parse_text
parse_text_body(text, response) ==
  IF is_blank(text)
    THEN Returns(ParseResult(FALSE, None, <<<<"No text content provided">>>>,
                             <<>>), <<>>)
    ELSE _parse_text(text, None, response)

parse_text(text, response) ==
  the({catch(run, "Error parsing text: ") :
         run \in {parse_text_body(text, response)}})

\* Path(file_path).suffix: the last dot of the final component and what
\* follows it, unless that dot starts or ends the component
suffix(file_path) ==
  LET slashes == {i \in 1..Len(file_path) : file_path[i] = "/"}
      start == IF slashes = {} THEN 1 ELSE Max(slashes) + 1
      dots == {i \in start..Len(file_path) : file_path[i] = "."}
  IN IF dots = {} \/ Max(dots) = start \/ Max(dots) = Len(file_path)
       THEN <<>>
       ELSE SubSeq(file_path, Max(dots), Len(file_path))

ExtPdf == <<".","p","d","f">>
ExtDocx == <<".","d","o","c","x">>
ExtTxt == <<".","t","x","t">>

\* text += part + "\n"  for each part
RECURSIVE concat_parts(_)
concat_parts(parts) ==
  IF parts = <<>> THEN <<>>
  ELSE Head(parts) \o <<NL>> \o concat_parts(Tail(parts))

\* A file is what the file system and the document readers make of a path:
\* whether it exists, whether reading it raises (missing library, damaged
\* file, undecodable bytes), and its pages, paragraphs or lines.
_extract_pdf_text(file) ==
  IF file.fault THEN Raise(<<"pdf reader failed">>)
  ELSE Value(concat_parts(SelectSeq(file.parts, LAMBDA page_text : page_text # <<>>)))

_extract_docx_text(file) ==
  IF file.fault THEN Raise(<<"docx reader failed">>)
  ELSE Value(concat_parts(SelectSeq(file.parts, LAMBDA p : strip(p) # <<>>)))

_extract_txt_text(file) ==
  IF file.fault THEN Raise(<<"read failed">>)
  ELSE Value(join(<<NL>>, file.parts))

\* variant: every extension is accepted
is_supported_any(file_ext) == TRUE

\* the if / elif chain on file_ext reaches a reader
is_supported(file_ext) == file_ext \in {ExtPdf, ExtDocx, ExtTxt}

\* the reader chosen by the extension
extract_text(file_ext, file) ==
  CASE file_ext = ExtPdf -> _extract_pdf_text(file)
    [] file_ext = ExtDocx -> _extract_docx_text(file)
    [] OTHER -> _extract_txt_text(file)

\* parse_file once the text is extracted: the blank test and the pipeline
parse_extracted(text, file_path, response) ==
  IF text.raised THEN Throws(text.exc, <<EvExtract>>)
  ELSE IF is_blank(text.value)
    THEN Returns(ParseResult(FALSE, None,
                   <<<<"No text content found in file">>>>, <<>>),
                 <<EvExtract>>)
  ELSE the({[raised |-> parsed.raised, exc |-> parsed.exc,
             result |-> parsed.result,
             events |-> <<EvExtract>> \o parsed.events] :
              parsed \in {_parse_text(text.value, Some(file_path), response)}})

\* the try block of parse_file
parse_file_body(file_path, file, response) ==
  LET file_ext == lower(suffix(file_path))
  IN IF ~file.exists
       THEN Returns(ParseResult(FALSE, None,
                      <<<<"File not found: ", file_path>>>>, <<>>), <<>>)
     ELSE IF ~is_supported(file_ext)
       THEN Returns(ParseResult(FALSE, None,
                      <<<<"Unsupported file format: ", file_ext>>>>, <<>>), <<>>)
     ELSE the({parse_extracted(text, file_path, response) :
                 text \in {extract_text(file_ext, file)}})

parse_file(file_path, file, response) ==
  the({catch(run, "Error parsing file: ") :
         run \in {parse_file_body(file_path, file, response)}})

(***************************************************************************)
(* Inputs.                                                                 *)
(***************************************************************************)
LineBlank == <<>>
LineSpace == <<" ">>
LineSkills == <<" ","S","K","I","L","L","S">>
LineGoSql == <<"G","o",","," ","S","Q","L">>
LineSchoolProjects == <<"S","c","h","o","o","l"," ","P","r","o","j","e","c","t","s">>

LineCands == {LineBlank, LineSpace, LineSkills, LineGoSql, LineSchoolProjects}

RECURSIVE SeqsUpTo(_, _)
SeqsUpTo(S, n) ==
  IF n = 0 THEN {<<>>}
  ELSE LET shorter == SeqsUpTo(S, n - 1)
       IN shorter \cup {Append(q, x) : q \in shorter, x \in S}

Paths == {<<"c","v",".","t","x","t">>,
          <<"c","v",".","P","D","F">>,
          <<"c","v",".","d","o","c","x">>,
          <<"c","v",".","r","t","f">>,
          <<"c","v">>}

KwGo == <<"g","o">>
SecSkills == <<"s","k","i","l","l","s">>
ContentGo == <<"G","o">>
ValidObject ==
  <<Tok("{"), Str(KeySections), Tok(":"), Tok("{"), Str(SecSkills), Tok(":"),
    Tok("["), Tok("{"), Str(KeyContent), Tok(":"), Str(ContentGo), Tok(","),
    Str(KeyKeywords), Tok(":"), Tok("["), Str(KwGo), Tok("]"), Tok("}"),
    Tok("]"), Tok("}"), Tok("}")>>

\* an object with two blocks under one section and a section name that is
\* not a ResumeSection value
KwSql == <<"s","q","l">>
ContentSql == <<"S","Q","L">>
SecHobbies == <<"h","o","b","b","i","e","s">>
MixedObject ==
  <<Tok("{"), Str(KeySections), Tok(":"), Tok("{"),
      Str(SecSkills), Tok(":"), Tok("["),
        Tok("{"), Str(KeyContent), Tok(":"), Str(ContentSql), Tok(","),
          Str(KeyKeywords), Tok(":"), Tok("["), Str(KwSql), Tok(","), Str(KwGo),
          Tok("]"), Tok("}"), Tok(","),
        Tok("{"), Str(KeyContent), Tok(":"), Str(ContentGo), Tok("}"),
      Tok("]"), Tok(","),
      Str(SecHobbies), Tok(":"), Tok("["),
        Tok("{"), Str(KeyContent), Tok(":"), Str(ContentGo), Tok("}"),
      Tok("]"),
    Tok("}"), Tok("}")>>

RespRaises == Raises
RespEmpty == Text(<<Tok("ws")>>)
RespNoJson == Text(<<Tok("word"), Tok("ws"), Tok("word")>>)
RespMalformed == Text(<<Tok("{"), Str(KeySections), Tok("}")>>)
RespValid == Text(ValidObject)
RespFenced == Text(<<Tok("word"), Tok("ws")>> \o ValidObject \o <<Tok("ws"), Tok("word")>>)
RespTrailingBrace == Text(ValidObject \o <<Tok("ws"), Tok("word"), Tok("}")>>)
RespNoSections == Text(<<Tok("{"), Tok("}")>>)
RespBadShape == Text(<<Tok("{"), Str(KeySections), Tok(":"), Tok("num"), Tok("}")>>)
RespMixed == Text(MixedObject)

LLMResponses ==
  {RespRaises, RespEmpty, RespNoJson, RespMalformed, RespValid, RespFenced,
   RespTrailingBrace, RespNoSections, RespBadShape, RespMixed}

\* the text the caller passes to parse_text
text_of(ls) == join(<<NL>>, ls)

\* what the remote service may answer; a disabled corrector never contacts it
Answers == IF use_llm_correction THEN LLMResponses ELSE {Raises}

NoCall == [op |-> "none", file_path |-> None, file |-> None, response |-> None]

(***************************************************************************)
(* The state machine.                                                      *)
(***************************************************************************)
\* ResumeParser(use_llm_correction): the corrector is enabled when asked for,
\* the API key is set and the client library is installed
Init ==
  /\ \E asked \in BOOLEAN, key_set \in BOOLEAN, genai_installed \in BOOLEAN :
       use_llm_correction = (asked /\ key_set /\ genai_installed)
  /\ lines \in SeqsUpTo(LineCands, MaxLines)
  /\ pc = "idle"
  /\ call = NoCall
  /\ returned = None
  /\ raised = None
  /\ events = <<>>
  /\ previous = <<>>

\* the response matters only when the remote service was called
Finish(op, file_path, file, response, run) ==
  /\ pc' = "done"
  /\ call' = [op |-> op, file_path |-> file_path, file |-> file,
              response |-> IF \E i \in DOMAIN run.events : run.events[i] = EvRemote
                             THEN Some(response) ELSE None]
  /\ returned' = run.result
  /\ raised' = IF run.raised THEN Some(run.exc) ELSE None
  /\ events' = run.events
  /\ UNCHANGED <<use_llm_correction, lines, previous>>

ParseText ==
  /\ pc = "idle"
  /\ \E response \in Answers :
       \E run \in {parse_text(text_of(lines), response)} :
          Finish("parse_text", None, None, response, run)

ParseFile ==
  /\ pc = "idle"
  /\ \E file_path \in Paths, exists \in BOOLEAN, fault \in BOOLEAN,
        response \in Answers :
       \E file \in {[exists |-> exists, fault |-> fault, parts |-> lines]} :
          \E run \in {parse_file(file_path, file, response)} :
             Finish("parse_file", Some(file_path), Some(file), response, run)

Next == ParseText \/ ParseFile

Spec == Init /\ [][Next]_vars

(***************************************************************************)
(* The contact extractor on its own: _extract_contact_info applied to      *)
(* texts of more lines than the name loop looks at.                        *)
(***************************************************************************)
MaxContactLines == 12    \* lines of a long text of blank lines and names
MaxShortLines == 2       \* lines of a short text of mixed lines

LineName == <<"A","n","n"," ","L","e","e">>
LineNamePadded == <<" ","B","o"," ","L","i"," ">>
LineTwoChars == <<"A","l">>
LineMyCv == <<"M","y"," ","C","V">>
LineOfLength(n) == [i \in 1..n |-> "x"]

LongContactLines == SeqsUpTo({LineBlank, LineName}, MaxContactLines)
ShortContactLines ==
  SeqsUpTo({LineSpace, LineNamePadded, LineTwoChars, LineMyCv,
            LineOfLength(NameMaxLen - 1), LineOfLength(NameMaxLen)},
           MaxShortLines)

InitContact ==
  /\ use_llm_correction = FALSE
  /\ lines \in LongContactLines \cup ShortContactLines
  /\ pc = "idle"
  /\ call = NoCall
  /\ returned = None
  /\ raised = None
  /\ events = <<>>
  /\ previous = <<>>

\* contact_info = self._extract_contact_info(text)
ExtractContact ==
  /\ pc = "idle"
  /\ pc' = "done"
  /\ call' = [op |-> "_extract_contact_info", file_path |-> None,
              file |-> None, response |-> None]
  /\ returned' = Some(_extract_contact_info(text_of(lines)))
  /\ UNCHANGED <<use_llm_correction, lines, raised, events, previous>>

NextContact == ExtractContact

SpecContact == InitContact /\ [][NextContact]_vars

(***************************************************************************)
(* Several invocations on one parser, one after the other.                 *)
(***************************************************************************)
MaxCalls == 2            \* invocations on one parser

CallInputs == {<<LineSkills, LineGoSql>>, <<LineSchoolProjects>>}

InitCalls ==
  /\ \E asked \in BOOLEAN, key_set \in BOOLEAN, genai_installed \in BOOLEAN :
       use_llm_correction = (asked /\ key_set /\ genai_installed)
  /\ lines \in CallInputs
  /\ pc = "idle"
  /\ call = NoCall
  /\ returned = None
  /\ raised = None
  /\ events = <<>>
  /\ previous = <<>>

\* the caller, having its result, invokes the same parser on another input
NewCall ==
  /\ pc = "done"
  /\ Len(previous) + 1 < MaxCalls
  /\ previous' = Append(previous,
                        [use_llm_correction |-> use_llm_correction,
                         lines |-> lines, call |-> call,
                         returned |-> returned, raised |-> raised])
  /\ lines' \in CallInputs
  /\ pc' = "idle"
  /\ call' = NoCall
  /\ returned' = None
  /\ raised' = None
  /\ events' = <<>>
  /\ UNCHANGED use_llm_correction

NextCalls == ParseText \/ ParseFile \/ NewCall

SpecCalls == InitCalls /\ [][NextCalls]_vars

(***************************************************************************)
(* The pipeline on texts whose lines hold the pieces of keywords: a        *)
(* keyword cut by a line break, by trimmed white space or by a blank line. *)
(***************************************************************************)
MaxKeywordLines == 3     \* lines of a text of keyword pieces

LineA == <<"A">>
LineI == <<"I"," ">>
LinePower == <<"P","o","w","e","r"," ">>
LineBi == <<" ","B","I">>
LinePowerBi == <<"P","o","w","e","r"," ","B","I">>

KeywordLines ==
  SeqsUpTo({LineBlank, LineA, LineI, LinePower, LineBi, LinePowerBi,
            LineSkills}, MaxKeywordLines)

InitKeywords ==
  /\ \E asked \in BOOLEAN, key_set \in BOOLEAN, genai_installed \in BOOLEAN :
       use_llm_correction = (asked /\ key_set /\ genai_installed)
  /\ lines \in KeywordLines
  /\ pc = "idle"
  /\ call = NoCall
  /\ returned = None
  /\ raised = None
  /\ events = <<>>
  /\ previous = <<>>

NextKeywords == ParseText

SpecKeywords == InitKeywords /\ [][NextKeywords]_vars

(***************************************************************************)
(* Vocabulary of the properties.                                           *)
(***************************************************************************)
Done == pc = "done"
Result == returned[1]
Doc == returned[1].resume[1]
HasDoc == returned # None /\ returned[1].resume # None

\* every character is white space (the empty text included)
WhitespaceOnly(text) == \A i \in 1..Len(text) : text[i] \in Whitespace

\* the text handed to the local pipeline by the invocation
InputText ==
  IF call.op = "parse_text" THEN text_of(lines)
  ELSE extract_text(lower(suffix(call.file_path[1])), call.file[1]).value

\* the responses on which the correction attempt fails
FailedResponses ==
  {RespRaises, RespEmpty, RespNoJson, RespMalformed, RespTrailingBrace,
   RespBadShape}

\* the invocation returned a document and no correction was applied to it
NotCorrected ==
  /\ Done /\ HasDoc
  /\ \/ ~use_llm_correction
     \/ call.response # None /\ call.response[1] \in FailedResponses

SevenKinds ==
  {"contact", "summary", "experience", "education", "skills", "projects",
   "certifications"}

\* the lines of a text, cut at the line breaks
LineBreaks(text) == {i \in 1..Len(text) : text[i] = NL}
BreakNo(text, n) ==
  CHOOSE i \in LineBreaks(text) :
    Cardinality({j \in LineBreaks(text) : j < i}) = n - 1
RawLines(text) ==
  LET count == Cardinality(LineBreaks(text)) + 1
  IN [n \in 1..count |->
        SubSeq(text,
               IF n = 1 THEN 1 ELSE BreakNo(text, n - 1) + 1,
               IF n = count THEN Len(text) ELSE BreakNo(text, n) - 1)]

\* s without its leading and trailing white space
Trimmed(s) ==
  LET a == CHOOSE a \in 1..(Len(s) + 1) :
             /\ \A i \in 1..(a - 1) : s[i] \in Whitespace
             /\ a = Len(s) + 1 \/ s[a] \notin Whitespace
      b == CHOOSE b \in 0..Len(s) :
             /\ \A i \in (b + 1)..Len(s) : s[i] \in Whitespace
             /\ b = 0 \/ s[b] \notin Whitespace
  IN SubSeq(s, a, b)

\* the non-empty trimmed lines of a text, in order
NonEmptyTrimmedLines(text) ==
  SelectSeq([n \in DOMAIN RawLines(text) |-> Trimmed(RawLines(text)[n])],
            LAMBDA l : l # <<>>)

RECURSIVE Flatten(_)
Flatten(seqs) ==
  IF seqs = <<>> THEN <<>> ELSE Head(seqs) \o Flatten(Tail(seqs))

\* k occurs in s as a substring
OccursIn(k, s) ==
  \E i \in 1..(Len(s) - Len(k) + 1) :
    /\ k # <<>> => s[i] = k[1]
    /\ \A j \in 1..Len(k) : s[i + j - 1] = k[j]

Vocabulary ==
  {tech_keywords[i] : i \in DOMAIN tech_keywords}
    \cup {common_keywords[i] : i \in DOMAIN common_keywords}

\* the section kinds whose heading patterns a line matches
CatalogOrder ==
  <<"summary", "experience", "education", "skills", "projects",
    "certifications">>
MatchingKinds(line) ==
  {section_patterns[i].section : i \in
     {n \in DOMAIN section_patterns :
        \E j \in DOMAIN section_patterns[n].patterns :
          OccursIn(section_patterns[n].patterns[j], lower(line))}}
FirstInCatalog(kinds) ==
  CatalogOrder[Min({i \in DOMAIN CatalogOrder : CatalogOrder[i] \in kinds})]

\* the extension of the path of a parse_file invocation is on the allow-list
EndsWith(s, tail) ==
  Len(s) >= Len(tail) /\ SubSeq(s, Len(s) - Len(tail) + 1, Len(s)) = tail
AllowedExtension(file_path) ==
  \E ext \in {ExtPdf, ExtDocx, ExtTxt} :
    Len(file_path) > Len(ext) /\ EndsWith(lower(file_path), ext)

(***************************************************************************)
(* Properties.                                                             *)
(***************************************************************************)

\* C1: for every text that is not white space only, parse_text returns
\* success with a document whose sections map has exactly the seven section
\* kinds as keys, with the corrector disabled, succeeding or failing.
C1_SevenSectionKeys ==
  (Done /\ call.op = "parse_text" /\ ~WhitespaceOnly(text_of(lines)))
    => /\ raised = None
       /\ returned # None
       /\ Result.success
       /\ Result.resume # None
       /\ DOMAIN Doc.sections = SevenKinds

C1_Witness ==
  /\ Done /\ call.op = "parse_text"
  /\ ~WhitespaceOnly(text_of(lines))
  /\ call.response = Some(RespValid)
  /\ HasDoc
  /\ Doc.sections["skills"] # <<>>

\* C2: for a text that is empty or white space only, parse_text returns
\* failure with a non-empty error list and no document, and neither the
\* local pipeline nor the remote service is run.
C2_BlankTextRejected ==
  (Done /\ call.op = "parse_text" /\ WhitespaceOnly(text_of(lines)))
    => /\ raised = None
       /\ returned # None
       /\ ~Result.success
       /\ Result.errors # <<>>
       /\ Result.resume = None
       /\ events = <<>>

C2_Witness ==
  /\ Done /\ call.op = "parse_text"
  /\ Len(text_of(lines)) >= 3
  /\ WhitespaceOnly(text_of(lines))
  /\ use_llm_correction
  /\ returned # None /\ ~Result.success

\* C3: in a document to which no correction was applied, each section holds
\* the blocks emitted for it in emission order, and the content lines of the
\* blocks, taken in emission order, are exactly the non-empty trimmed lines of
\* the input, each once and in input order.
C3_LinesPartitioned ==
  NotCorrected =>
    LET emitted == segment(Doc.raw_text).emitted
    IN /\ \A s \in DOMAIN Doc.sections :
            Doc.sections[s] = SelectSeq(emitted, LAMBDA b : b.section = s)
       /\ Flatten([i \in DOMAIN emitted |-> RawLines(emitted[i].content)])
            = NonEmptyTrimmedLines(Doc.raw_text)

C3_Witness ==
  /\ NotCorrected
  /\ Doc.raw_text = InputText
  /\ Len(NonEmptyTrimmedLines(InputText)) = 3
  /\ Doc.sections["summary"] # <<>>
  /\ Doc.sections["skills"] # <<>>
  /\ Len(RawLines(Doc.sections["skills"][1].content)) = 2

\* C4: when the corrector is disabled or its attempt fails, the returned
\* document is exactly the document built by the local pipeline from the
\* input text and source path.
C4_FallbackIsLocalParse ==
  NotCorrected =>
    /\ Result.success
    /\ Result.resume = Some(local_parse(InputText, call.file_path))

C4_Witness ==
  /\ NotCorrected
  /\ use_llm_correction
  /\ call.response = Some(RespMalformed)
  /\ Doc.sections["education"] # <<>>
  /\ Doc.all_keywords # {}

\* C5: a correction attempt that fails because the remote call raises, the
\* response text is empty, it holds no JSON object or the JSON is malformed
\* still gives success with the document, and the notes are the fallback note
\* followed by the failure description.
C5_CorrectionFailureNonFatal ==
  (Done /\ call.response # None
        /\ call.response[1] \in {RespRaises, RespEmpty, RespNoJson, RespMalformed})
    => /\ raised = None
       /\ returned # None
       /\ Result.success
       /\ Result.resume # None
       /\ Len(Result.messages) = 2
       /\ Result.messages[1] = <<"LLM correction failed, using initial parse.">>
       /\ Result.messages[2][1] = "LLM correction error: "

C5_Witness ==
  /\ Done
  /\ call.response = Some(RespEmpty)
  /\ HasDoc
  /\ Len(Result.messages) = 2

\* C6: in every returned outcome the document is present exactly when
\* success is true and the error list is non-empty exactly when it is false.
C6_DocumentIffOk ==
  (Done /\ returned # None)
    => /\ (Result.resume # None) <=> Result.success
       /\ (Result.errors # <<>>) <=> ~Result.success

C6_Witness ==
  /\ Done
  /\ call.response = Some(RespRaises)
  /\ HasDoc
  /\ Result.success
  /\ Result.errors = <<>>
  /\ Len(Result.messages) = 2

\* C7: a block that starts with a line matching heading patterns is stored
\* under the first section in catalog order among those the line matches, and
\* every line matching several sections starts such a block.
C7_FirstInCatalogWins ==
  NotCorrected =>
    /\ \A s \in DOMAIN Doc.sections : \A i \in DOMAIN Doc.sections[s] :
         LET kinds == MatchingKinds(RawLines(Doc.sections[s][i].content)[1])
         IN kinds # {} => s = FirstInCatalog(kinds)
    /\ LET input_lines == NonEmptyTrimmedLines(InputText)
       IN \A n \in DOMAIN input_lines :
            LET kinds == MatchingKinds(input_lines[n])
                blocks == Doc.sections[FirstInCatalog(kinds)]
            IN Cardinality(kinds) >= 2 =>
                 \E i \in DOMAIN blocks :
                   RawLines(blocks[i].content)[1] = input_lines[n]

C7_Witness ==
  /\ NotCorrected
  /\ call.op = "parse_text"
  /\ Len(lines) = 2
  /\ lines[1] = LineSkills
  /\ lines[2] = LineSchoolProjects
  /\ MatchingKinds(lines[2]) = {"education", "projects"}
  /\ Len(Doc.sections["skills"]) = 1
  /\ Len(Doc.sections["education"]) = 1
  /\ Doc.sections["projects"] = <<>>

\* C8: parse_file returns failure with no document and one error message
\* when the path does not exist (the message names the path), when the
\* extension is not pdf, docx or txt, and when the extracted text is blank;
\* in these cases neither the local pipeline nor the remote service is run,
\* and otherwise the local pipeline is run.
C8_FileValidation ==
  (Done /\ call.op = "parse_file") =>
    LET file_path == call.file_path[1]
        file == call.file[1]
        rejected == /\ raised = None /\ returned # None
                    /\ ~Result.success /\ Result.resume = None
                    /\ Len(Result.errors) = 1
                    /\ \A i \in DOMAIN events :
                         events[i] \notin {EvPipeline, EvRemote}
    IN /\ ~file.exists =>
            rejected /\ Result.errors[1] = <<"File not found: ", file_path>>
       /\ (file.exists /\ ~AllowedExtension(file_path)) =>
            rejected /\ Result.errors[1][1] = "Unsupported file format: "
       /\ (file.exists /\ AllowedExtension(file_path) /\ ~file.fault
             /\ WhitespaceOnly(InputText)) =>
            rejected /\ Result.errors[1] = <<"No text content found in file">>
       /\ (file.exists /\ AllowedExtension(file_path) /\ ~file.fault
             /\ ~WhitespaceOnly(InputText)) =>
            \E i \in DOMAIN events : events[i] = EvPipeline

C8_Witness ==
  /\ Done /\ call.op = "parse_file"
  /\ call.file[1].exists /\ ~call.file[1].fault
  /\ call.file_path = Some(<<"c","v",".","P","D","F">>)
  /\ Len(lines) = 2
  /\ use_llm_correction
  /\ returned # None
  /\ Result.errors = <<<<"No text content found in file">>>>

\* C9: no invocation lets an exception out; when the document reader raises,
\* the outcome is failure with a non-empty error list and no document.
C9_NoExceptionEscapes ==
  Done =>
    /\ raised = None
    /\ returned # None
    /\ (call.op = "parse_file" /\ call.file[1].exists /\ call.file[1].fault
          /\ AllowedExtension(call.file_path[1]))
         => /\ ~Result.success
            /\ Result.errors # <<>>
            /\ Result.resume = None

C9_Witness ==
  /\ Done /\ call.op = "parse_file"
  /\ call.file[1].exists /\ call.file[1].fault
  /\ AllowedExtension(call.file_path[1])
  /\ returned # None
  /\ Result.errors # <<>>
  /\ Result.errors[1][1] = "Error parsing file: "

\* C10: for every block of a document to which no correction was applied,
\* extracting keywords from the block's content, in its own, upper or lower
\* case, gives the stored keyword set, which is the set of vocabulary entries
\* that occur in the lower-cased content.
C10_KeywordsIdempotent ==
  NotCorrected =>
    \A s \in DOMAIN Doc.sections : \A i \in DOMAIN Doc.sections[s] :
      LET block == Doc.sections[s][i]
      IN /\ _extract_keywords(block.content) = block.keywords
         /\ _extract_keywords(upper(block.content)) = block.keywords
         /\ _extract_keywords(lower(block.content)) = block.keywords
         /\ block.keywords = {k \in Vocabulary : OccursIn(k, lower(block.content))}

C10_Witness ==
  /\ NotCorrected
  /\ \E i \in DOMAIN Doc.sections["skills"] :
       /\ Doc.sections["skills"][i].keywords = {<<"g","o">>, <<"s","q","l">>}
       /\ Doc.sections["skills"][i].content # lower(Doc.sections["skills"][i].content)

\* the invocation returned the document rebuilt from the remote response
Corrected ==
  /\ Done /\ HasDoc /\ use_llm_correction
  /\ Result.messages = <<<<"Sections verified/corrected by Gemini Pro">>>>

\* the JSON object of the response of the invocation
ResponseData == json_loads(search_json_object(strip_tokens(call.response[1].text))[1])[1]

\* the value listed under a key of a JSON object, as <<value>>, or <<>>
Listed(object, key) ==
  IF \E i \in DOMAIN object.v : object.v[i][1] = key
    THEN <<dict_get(object, key)>> ELSE <<>>

\* the text of the content entry and the strings of the keywords entry of a
\* response block, empty when the entry is missing
BlockContent(block) ==
  IF Listed(block, KeyContent) = <<>> THEN <<>> ELSE Listed(block, KeyContent)[1].v
BlockKeywords(block) ==
  IF Listed(block, KeyKeywords) = <<>> THEN <<>>
  ELSE [n \in DOMAIN Listed(block, KeyKeywords)[1].v |->
          Listed(block, KeyKeywords)[1].v[n].v]

\* the response names its sections in a map from names to lists of objects
HasSectionMap ==
  /\ Listed(ResponseData, KeySections) # <<>>
  /\ Listed(ResponseData, KeySections)[1].k = "dict"
  /\ \A i \in DOMAIN Listed(ResponseData, KeySections)[1].v :
       Listed(ResponseData, KeySections)[1].v[i][2].k = "list"

C12_ContactAndTextCarried ==
  (Done /\ HasDoc) =>
    /\ Doc.raw_text = InputText
    /\ Doc.contact_info = _extract_contact_info(InputText)
    /\ call.op = "parse_text" => Doc.file_path = None
    /\ call.op = "parse_file" => Doc.file_path = call.file_path /\ Doc.file_path # None

C12_Witness ==
  /\ Corrected
  /\ call.op = "parse_file"
  /\ call.response = Some(RespValid)
  /\ Doc.contact_info.name = Some(LineGoSql)
  /\ Doc.sections # local_parse(InputText, call.file_path).sections

\* the requests sent to the remote service by the invocation
RemoteCalls == Cardinality({i \in DOMAIN events : events[i] = EvRemote})

\* the input of the invocation passes the checks of its entry point and, for
\* a file, its text is read
InputAccepted ==
  IF call.op = "parse_text" THEN ~WhitespaceOnly(text_of(lines))
  ELSE /\ call.file[1].exists
       /\ AllowedExtension(call.file_path[1])
       /\ ~call.file[1].fault
       /\ ~WhitespaceOnly(InputText)

\* C13: an invocation sends at most one request to the remote service:
\* exactly one when the corrector is enabled and the input is accepted, none
\* otherwise; a failed attempt is not repeated.
C13_AtMostOneRemoteCall ==
  Done =>
    /\ RemoteCalls <= 1
    /\ (use_llm_correction /\ InputAccepted) => RemoteCalls = 1
    /\ (~use_llm_correction \/ ~InputAccepted) => RemoteCalls = 0

C13_Witness ==
  /\ Done /\ use_llm_correction /\ InputAccepted
  /\ call.response = Some(RespMalformed)
  /\ RemoteCalls = 1
  /\ Result.success
  /\ Result.messages[1] = <<"LLM correction failed, using initial parse.">>

\* C14 as stated: in every returned document all_keywords is the keyword
\* extraction of the whole raw text, for corrected documents too.
C14_AllKeywordsFromRawText ==
  (Done /\ HasDoc) => Doc.all_keywords = _extract_keywords(Doc.raw_text)

\* C14 as amended: a document to which no correction was applied has the
\* keyword extraction of its whole raw text as all_keywords; a corrected
\* document has the union of the keyword lists of its blocks, which are the
\* blocks of the response.
C14_AllKeywordsBySource ==
  (Done /\ HasDoc) =>
    /\ NotCorrected => Doc.all_keywords = _extract_keywords(Doc.raw_text)
    /\ Corrected =>
         Doc.all_keywords =
           UNION {UNION {{Doc.sections[s][b].keywords[n] :
                            n \in DOMAIN Doc.sections[s][b].keywords} :
                         b \in DOMAIN Doc.sections[s]} :
                  s \in DOMAIN Doc.sections}
    /\ NotCorrected \/ Corrected

C14_Witness ==
  /\ Corrected
  /\ call.response = Some(RespMixed)
  /\ Doc.all_keywords = {KwSql, KwGo}
  /\ _extract_keywords(Doc.raw_text) = {}

\* a trimmed line the name heuristic accepts
GoodName(line) ==
  /\ Len(line) > 2
  /\ Len(line) < 50
  /\ \A k \in DOMAIN NameStopwords : ~OccursIn(NameStopwords[k], lower(line))

\* the first accepted line of a sequence of trimmed lines, as <<line>>, or <<>>
FirstGoodName(trimmed) ==
  IF \A n \in DOMAIN trimmed : ~GoodName(trimmed[n]) THEN <<>>
  ELSE <<trimmed[Min({n \in DOMAIN trimmed : GoodName(trimmed[n])})]>>

\* the first n entries of a sequence
FirstN(seq, n) == [i \in 1..Min({n, Len(seq)}) |-> seq[i]]

\* the trimmed lines of a text, the empty ones included
TrimmedLines(text) == [n \in DOMAIN RawLines(text) |-> Trimmed(RawLines(text)[n])]

\* C15 as stated: the name is the first accepted line among the first 10
\* non-empty lines of the text.
C15_NameAmongNonEmptyLines ==
  Done =>
    Result.name = FirstGoodName(FirstN(NonEmptyTrimmedLines(text_of(lines)), 10))

\* C15 as amended: the name is the first accepted line among the first 10
\* lines of the text, blank lines counted; it is unset if there is none.
C15_NameAmongFirstTenLines ==
  Done =>
    Result.name = FirstGoodName(FirstN(TrimmedLines(text_of(lines)), 10))

C15_Witness ==
  /\ Done
  /\ Len(lines) = 11
  /\ \A n \in 1..10 : lines[n] = LineBlank
  /\ lines[11] = LineName
  /\ Result.name = None

\* the span of a token text from its first opening brace to the closing
\* brace that matches it, as <<span>>, or <<>> when there is none
FirstBalancedSpan(text) ==
  LET opens == {i \in 1..Len(text) : text[i].t = "{"}
      first == Min(opens)
      balanced == {j \in 1..Len(text) :
                     /\ j > first
                     /\ text[j].t = "}"
                     /\ Cardinality({i \in first..j : text[i].t = "{"})
                          = Cardinality({i \in first..j : text[i].t = "}"})}
  IN IF opens = {} THEN <<>>
     ELSE IF balanced = {} THEN <<>>
     ELSE <<SubSeq(text, first, Min(balanced))>>

\* C16: when the first brace-balanced span of the response text is a JSON
\* object from which a document can be rebuilt, the invocation returns the
\* document rebuilt from that object, whatever text follows the span.
C16_FirstBalancedSpanParsed ==
  (Done /\ RemoteCalls = 1 /\ ~call.response[1].raises) =>
    LET span == FirstBalancedSpan(strip_tokens(call.response[1].text))
    IN (span # <<>> /\ json_loads(span[1]) # None) =>
         LET rebuilt == _parsed_resume_from_llm(json_loads(span[1])[1],
                          local_parse(InputText, call.file_path))
         IN ~rebuilt.raised =>
              Result = ParseResult(TRUE, Some(rebuilt.value), <<>>,
                         <<<<"Sections verified/corrected by Gemini Pro">>>>)

\* the remote service was called and the object taken from its response
\* text parses as JSON
ResponseParses ==
  /\ Done /\ RemoteCalls = 1 /\ ~call.response[1].raises
  /\ search_json_object(strip_tokens(call.response[1].text)) # None
  /\ json_loads(search_json_object(strip_tokens(call.response[1].text))[1]) # None

\* a response block is an object whose content, when present, is a string
\* and whose keywords, when present, are a list of strings
BlockShaped(block) ==
  /\ block.k = "dict"
  /\ Listed(block, KeyContent) # <<>> => Listed(block, KeyContent)[1].k = "str"
  /\ Listed(block, KeyKeywords) # <<>> =>
       /\ Listed(block, KeyKeywords)[1].k = "list"
       /\ \A n \in DOMAIN Listed(block, KeyKeywords)[1].v :
            Listed(block, KeyKeywords)[1].v[n].k = "str"

\* the response object has a sections key whose value maps names to lists of
\* blocks
ResponseShaped ==
  /\ HasSectionMap
  /\ \A i \in DOMAIN Listed(ResponseData, KeySections)[1].v :
       \A b \in DOMAIN Listed(ResponseData, KeySections)[1].v[i][2].v :
         BlockShaped(Listed(ResponseData, KeySections)[1].v[i][2].v[b])

\* C17: a response object without a sections key, or whose sections value is
\* not a map from names to lists of blocks, is a correction failure: the
\* invocation returns the uncorrected document with the fallback note.
C17_MalformedShapeFallsBack ==
  (ResponseParses /\ ~ResponseShaped) =>
    /\ returned # None
    /\ Result.success
    /\ Result.resume = Some(local_parse(InputText, call.file_path))
    /\ Result.messages # <<>>
    /\ Result.messages[1] = <<"LLM correction failed, using initial parse.">>

HeadingLines(input_lines) ==
  {n \in DOMAIN input_lines : MatchingKinds(input_lines[n]) # {}}

\* the number of lines before the first heading line
LeadingLines(input_lines) ==
  IF HeadingLines(input_lines) = {} THEN Len(input_lines)
  ELSE Min(HeadingLines(input_lines)) - 1

\* the blocks of the document, as <<section, index>>
BlocksOfDoc ==
  UNION {{<<s, i>> : i \in DOMAIN Doc.sections[s]} : s \in DOMAIN Doc.sections}

\* the blocks whose first line matches no heading pattern
HeadlessBlocks ==
  {b \in BlocksOfDoc :
     MatchingKinds(RawLines(Doc.sections[b[1]][b[2]].content)[1]) = {}}

\* C19: the non-empty lines before the first heading line form exactly one
\* block, the first block of summary; without any heading line that block is
\* the whole document; when the first non-empty line is a heading there is
\* no such block.
C19_LeadingLinesAreSummary ==
  NotCorrected =>
    LET input_lines == NonEmptyTrimmedLines(InputText)
        leading == LeadingLines(input_lines)
        headless == HeadlessBlocks
    IN /\ leading > 0 =>
            /\ headless = {<<"summary", 1>>}
            /\ RawLines(Doc.sections["summary"][1].content)
                 = SubSeq(input_lines, 1, leading)
       /\ leading = 0 => headless = {}
       /\ leading = Len(input_lines) => BlocksOfDoc = headless

C19_Witness ==
  /\ NotCorrected
  /\ call.op = "parse_text"
  /\ lines = <<LineGoSql, LineGoSql, LineSkills>>
  /\ LeadingLines(NonEmptyTrimmedLines(InputText)) = 2
  /\ Len(Doc.sections["summary"]) = 1
  /\ Len(Doc.sections["skills"]) = 1

\* C20: every block has at least one line; a line after the first line of a
\* block matches no heading pattern; a block whose first line matches
\* heading patterns is stored under the section the line matched; and there
\* are as many blocks as heading lines, plus one when the first non-empty
\* line is no heading.
C20_BlockStructure ==
  NotCorrected =>
    LET input_lines == NonEmptyTrimmedLines(InputText)
        headings == HeadingLines(input_lines)
        blocks == BlocksOfDoc
    IN /\ \A b \in blocks :
            LET block_lines == RawLines(Doc.sections[b[1]][b[2]].content)
            IN /\ Doc.sections[b[1]][b[2]].content # <<>>
               /\ \A n \in 2..Len(block_lines) : MatchingKinds(block_lines[n]) = {}
               /\ MatchingKinds(block_lines[1]) # {} =>
                    b[1] = FirstInCatalog(MatchingKinds(block_lines[1]))
       /\ Cardinality(blocks)
            = Cardinality(headings)
                + (IF input_lines # <<>> /\ 1 \notin headings THEN 1 ELSE 0)

C20_Witness ==
  /\ NotCorrected
  /\ call.op = "parse_text"
  /\ lines = <<LineGoSql, LineSkills, LineSkills>>
  /\ Len(Doc.sections["summary"]) = 1
  /\ Len(Doc.sections["skills"]) = 2
  /\ Doc.sections["skills"][1].content = strip(LineSkills)
  /\ Doc.sections["skills"][2].content = strip(LineSkills)

\* C21: in an uncorrected document all_keywords is the union of the keyword
\* sets of all blocks of all sections, and a vocabulary entry occurs in the
\* lower-cased raw text exactly when it occurs in some lower-cased trimmed
\* non-empty line of it.
C21_AllKeywordsAreBlockKeywords ==
  NotCorrected =>
    LET input_lines == NonEmptyTrimmedLines(Doc.raw_text)
        text_lower == lower(Doc.raw_text)
    IN /\ Doc.all_keywords
            = UNION {Doc.sections[b[1]][b[2]].keywords : b \in BlocksOfDoc}
       /\ \A k \in Vocabulary :
            OccursIn(k, text_lower)
              <=> \E n \in DOMAIN input_lines : OccursIn(k, lower(input_lines[n]))

C21_Witness ==
  /\ NotCorrected
  /\ call.op = "parse_text"
  /\ lines = <<LinePower, LineSkills, LinePowerBi>>
  /\ Doc.sections["summary"][1].keywords = {<<"r">>}
  /\ Doc.sections["skills"][1].keywords = {<<"r">>, lower(LinePowerBi)}
  /\ Doc.all_keywords = {<<"r">>, lower(LinePowerBi)}

\* C22: in an uncorrected document the contact section is the empty
\* sequence, and every block's section field is one of summary, experience,
\* education, skills, projects, certifications and is the key under which
\* the block is stored.
C22_ContactSectionEmpty ==
  NotCorrected =>
    /\ Doc.sections["contact"] = <<>>
    /\ \A s \in DOMAIN Doc.sections :
         \A i \in DOMAIN Doc.sections[s] :
           /\ Doc.sections[s][i].section = s
           /\ Doc.sections[s][i].section \in SevenKinds \ {"contact"}

C22_Witness ==
  /\ NotCorrected
  /\ call.op = "parse_text"
  /\ lines = <<LineGoSql, LineSkills, LineSchoolProjects>>
  /\ Doc.sections["contact"] = <<>>
  /\ Doc.sections["summary"][1].section = "summary"
  /\ Doc.sections["skills"][1].section = "skills"
  /\ Doc.sections["education"][1].section = "education"

====
